---- MODULE Spec2Model ----
(***************************************************************************)
(* Memorija: an in-memory key-value cache with per-key time to live.       *)
(* The store is a JavaScript Map from key to a raw entry [expireAt, value] *)
(* plus a WeakMap from raw entry to the handle of its pending setTimeout.  *)
(* Expiration is driven only by the host firing those timeouts.            *)
(***************************************************************************)
EXTENDS Integers, Sequences, FiniteSets, TLC

\* ------------------------------------------------------------------ bounds
MaxTime == 2        \* the clock runs over 0..MaxTime
MaxTtl == 1         \* TTL arguments are drawn from 0..MaxTtl
MaxTimers == 3      \* cap on the host's pending timeouts

Keys == {"a", "b"}
Vals == {"v1", "v2"}

\* ------------------------------------------------------- JavaScript values
Undefined == [t |-> "undefined"]
Null == [t |-> "null"]
Num(n) == [t |-> "number", n |-> n]
Str(s) == [t |-> "string", s |-> s]
Bool(b) == [t |-> "boolean", b |-> b]
This == [t |-> "this"]

\* ToNumber as applied by `+`, `-` and setTimeout: null coerces to 0.
ToNumber(x) == IF x = Null THEN 0 ELSE x.n

VARIABLES
    map,        \* this.map: sequence of <<key, entry>> in insertion order
    timers,     \* this.timers: raw entry identity -> timeout handle
    sched,      \* the host's pending timeouts (one record per live handle)
    now,        \* Date.now()
    last        \* the last step taken: operation, arguments, return value

vars == <<map, timers, sched, now, last>>

\* The store as one value, threaded through the private helpers.
Store == [map |-> map, timers |-> timers, sched |-> sched]

\* --------------------------------------------------------- Map primitives
MapIndex(m, key) ==
    IF \E i \in 1..Len(m) : m[i].key = key
    THEN CHOOSE i \in 1..Len(m) : m[i].key = key
    ELSE 0

MapHas(m, key) == MapIndex(m, key) # 0

MapGet(m, key) ==
    IF MapHas(m, key) THEN m[MapIndex(m, key)].entry ELSE Undefined

\* Faulty variant of MapSet: an overwritten key is moved to the end.
MapSetMoveToEnd(m, key, entry) ==
    LET i == IF \E j \in 1..Len(m) : m[j].key = key
             THEN CHOOSE j \in 1..Len(m) : m[j].key = key ELSE 0
        rest == IF i = 0 THEN m
                ELSE SubSeq(m, 1, i - 1) \o SubSeq(m, i + 1, Len(m))
    IN  Append(rest, [key |-> key, entry |-> entry])

\* Map.prototype.set: an existing key keeps its position, a new one is appended.
MapSet(m, key, entry) ==
    IF MapHas(m, key)
    THEN [m EXCEPT ![MapIndex(m, key)] = [key |-> key, entry |-> entry]]
    ELSE Append(m, [key |-> key, entry |-> entry])

MapDelete(m, key) ==
    LET i == MapIndex(m, key) IN
    IF i = 0 THEN m
    ELSE SubSeq(m, 1, i - 1) \o SubSeq(m, i + 1, Len(m))

MapKeys(m) == [i \in 1..Len(m) |-> m[i].key]

\* ------------------------------------------------------- object identities
UsedIds(s) ==
    {s.map[i].entry.id : i \in 1..Len(s.map)}
        \cup DOMAIN s.timers
        \cup {h.entry : h \in s.sched}

\* A newly allocated raw entry is distinct from every entry still referenced.
NewEntryId(s) ==
    CHOOSE i \in 1..(Cardinality(UsedIds(s)) + 1) :
        /\ i \notin UsedIds(s)
        /\ \A j \in 1..(i - 1) : j \in UsedIds(s)

\* --------------------------------------------------------- Memorija (reads)
getRawEntry(s, key) == MapGet(s.map, key)

get(s, key) ==
    LET result == getRawEntry(s, key) IN
    IF result = Undefined THEN Undefined ELSE result.value

\* Faulty variant of has: a key past its deadline is hidden before its timer fires.
hasLazy(s, key) ==
    /\ MapHas(s.map, key)
    /\ \/ MapGet(s.map, key).expireAt = Undefined
       \/ ~(MapGet(s.map, key).expireAt.n < now)

has(s, key) == MapHas(s.map, key)

size(s) == Len(s.map)

keys(s) == MapKeys(s.map)

values(s) == [i \in 1..Len(s.map) |-> s.map[i].entry.value]

entries(s) == [i \in 1..Len(s.map) |-> <<s.map[i].key, s.map[i].entry.value>>]

\* new MemorijaEntry(value, expireAt): an undefined deadline is stored as null.
MemorijaEntry(value, expireAt) ==
    [value |-> value,
     expireAt |-> IF expireAt = Undefined THEN Null ELSE expireAt]

\* Faulty variant of EntryTtl: the null check is missing, so null coerces to 0.
EntryTtlNoNullCheck(e, t) == Num(ToNumber(e.expireAt) - t)

\* Faulty variant of EntryTtl: the deadline is returned as the remaining time.
EntryTtlAbsolute(e, t) ==
    IF e.expireAt = Null THEN Null ELSE e.expireAt

EntryTtl(e, t) ==
    IF e.expireAt = Null THEN Null ELSE Num(e.expireAt.n - t)

EntryIsExpired(e, t) ==
    IF e.expireAt = Null THEN FALSE ELSE e.expireAt.n < t

getEntry(s, key) ==
    LET entry == getRawEntry(s, key) IN
    IF entry = Undefined THEN Undefined
    ELSE MemorijaEntry(entry.value, entry.expireAt)

fullEntries(s) ==
    [i \in 1..Len(s.map) |->
        <<s.map[i].key,
          MemorijaEntry(s.map[i].entry.value, s.map[i].entry.expireAt)>>]

fullValues(s) ==
    [i \in 1..Len(s.map) |->
        MemorijaEntry(s.map[i].entry.value, s.map[i].entry.expireAt)]

\* ttl(key) in getter mode, at clock value t.
ttlGet(s, key, t) ==
    LET entry == getEntry(s, key) IN
    IF entry = Undefined THEN Undefined ELSE EntryTtl(entry, t)

\* expireAt(key) in getter mode: the raw entry's first component, as stored.
expireAtGet(s, key) ==
    LET entry == getRawEntry(s, key) IN
    IF entry = Undefined THEN Undefined ELSE entry.expireAt

\* The read operations: those that take a key, and those that do not.
KeyedReads == {"get", "getEntry", "has", "ttlGet", "expireAtGet"}
UnkeyedReads == {"size", "keys", "values", "entries", "fullEntries", "fullValues"}
ReadOps == KeyedReads \cup UnkeyedReads

Iterated(items) == [t |-> "iterator", items |-> items]

\* What read operation op returns from store s at clock value t.
readResult(s, op, key, t) ==
    CASE op = "get" -> get(s, key)
      [] op = "getEntry" -> getEntry(s, key)
      [] op = "has" -> Bool(has(s, key))
      [] op = "ttlGet" -> ttlGet(s, key, t)
      [] op = "expireAtGet" -> expireAtGet(s, key)
      [] op = "size" -> Num(size(s))
      [] op = "keys" -> Iterated(keys(s))
      [] op = "values" -> Iterated(values(s))
      [] op = "entries" -> Iterated(entries(s))
      [] op = "fullEntries" -> Iterated(fullEntries(s))
      [] op = "fullValues" -> Iterated(fullValues(s))

\* Faulty variant of afterRead: a keyed read evicts a key past its deadline.
afterReadEvictsExpired(s, op, key) ==
    IF /\ op \in KeyedReads
       /\ MapHas(s.map, key)
       /\ MapGet(s.map, key).expireAt # Undefined
       /\ MapGet(s.map, key).expireAt.n < now
    THEN [s EXCEPT !.map = MapDelete(s.map, key)]
    ELSE s

\* The store after read operation op: none of them writes a field, cancels or
\* schedules a timeout.
afterRead(s, op, key) == s

\* ------------------------------------------------------- timers (private)
\* setTimeout's delay: the argument coerced to a number, never negative.
TimeoutDelay(timeout) ==
    IF ToNumber(timeout) < 0 THEN 0 ELSE ToNumber(timeout)

\* clearTimeout(handle): a no-op for undefined or an already fired handle.
ClearTimeout(sc, handle) == {h \in sc : h.id # handle}

WeakGet(w, id) == IF id \in DOMAIN w THEN w[id] ELSE 0

WeakDelete(w, id) == [i \in DOMAIN w \ {id} |-> w[i]]

WeakSet(w, id, handle) ==
    [i \in DOMAIN w \cup {id} |-> IF i = id THEN handle ELSE w[i]]

\* Faulty variant of cancelTimerForRawEntry: the handle is forgotten but the
\* timeout itself is not cleared.
cancelTimerForRawEntryNoClear(s, entry) ==
    IF entry = Undefined THEN s
    ELSE [s EXCEPT !.timers = WeakDelete(s.timers, entry.id)]

cancelTimerForRawEntry(s, entry) ==
    IF entry = Undefined THEN s
    ELSE [s EXCEPT !.sched = ClearTimeout(s.sched, WeakGet(s.timers, entry.id)),
                   !.timers = WeakDelete(s.timers, entry.id)]

\* Faulty variant of cancelTimerForKey: the key's pending timeout is left alone.
cancelTimerForKeyNoop(s, key) == s

cancelTimerForKey(s, key) == cancelTimerForRawEntry(s, getRawEntry(s, key))

RECURSIVE CancelFrom(_, _)
CancelFrom(s, i) ==
    IF i > Len(s.map) THEN s
    ELSE CancelFrom(cancelTimerForRawEntry(s, s.map[i].entry), i + 1)

\* Faulty variant of cancelTimers: nothing is cancelled.
cancelTimersNoop(s) == s

cancelTimers(s) == CancelFrom(s, 1)

\* Faulty variant of createTimer: the timeout is scheduled with no delay.
createTimerImmediate(s, key, entry, timeout, t) ==
    [s EXCEPT !.timers = WeakSet(s.timers, entry.id, entry.id),
              !.sched = s.sched \cup
                  {[id |-> entry.id, key |-> key, entry |-> entry.id,
                    due |-> t]}]

\* The handle takes the identity of the entry it was created for: createTimer
\* runs once per raw entry, right after the entry is allocated.
createTimer(s, key, entry, timeout, t) ==
    [s EXCEPT !.timers = WeakSet(s.timers, entry.id, entry.id),
              !.sched = s.sched \cup
                  {[id |-> entry.id, key |-> key, entry |-> entry.id,
                    due |-> t + TimeoutDelay(timeout)]}]

\* Faulty variant of timerCallback: the key is left in the map.
timerCallbackKeepsKey(s, h) ==
    [s EXCEPT !.timers = WeakDelete(s.timers, h.entry)]

\* Faulty variant of timerCallback: the callback empties the whole map.
timerCallbackDropsAll(s, h) ==
    [s EXCEPT !.timers = WeakDelete(s.timers, h.entry),
              !.map = <<>>]

\* The callback given to setTimeout, run for host timer h. It forgets the
\* handle of the entry it was created for and deletes the key, whatever record
\* the key holds by then: the callback compares no identities.
timerCallback(s, h) ==
    [s EXCEPT !.timers = WeakDelete(s.timers, h.entry),
              !.map = MapDelete(s.map, h.key)]

\* -------------------------------------------------------- Memorija (writes)
set(s, key, value, ttl, t) ==
    LET s1 == cancelTimerForKey(s, key)
        expireAt == IF ttl # Undefined THEN Num(t + ToNumber(ttl)) ELSE Undefined
        entry == [id |-> NewEntryId(s1), expireAt |-> expireAt, value |-> value]
        s2 == [s1 EXCEPT !.map = MapSet(s1.map, key, entry)]
    IN  IF ttl # Undefined THEN createTimer(s2, key, entry, ttl, t) ELSE s2

\* Faulty variant of delete: the record is removed without cancelling its timer.
deleteNoCancel(s, key) == [s EXCEPT !.map = MapDelete(s.map, key)]

delete(s, key) ==
    LET s1 == cancelTimerForKey(s, key) IN
    [s1 EXCEPT !.map = MapDelete(s1.map, key)]

\* Faulty variant of deleteResult: a key past its deadline counts as gone.
deleteResultLazy(s, key) ==
    Bool(/\ MapHas(s.map, key)
         /\ \/ MapGet(s.map, key).expireAt = Undefined
            \/ ~(MapGet(s.map, key).expireAt.n < now))

deleteResult(s, key) == Bool(MapHas(cancelTimerForKey(s, key).map, key))

clear(s) ==
    LET s1 == cancelTimers(s) IN [s1 EXCEPT !.map = <<>>]

\* Faulty variant of ttlSet: the early return for a missing key is dropped.
ttlSetNoGuard(s, key, ttl, t) == set(s, key, get(s, key), ttl, t)

\* Faulty variant of ttlSet: the entry object is stored in place of its value.
ttlSetStoresEntry(s, key, ttl, t) ==
    LET entry == getEntry(s, key) IN
    IF entry = Undefined THEN s ELSE set(s, key, entry, ttl, t)

\* ttl(key, ttl) in setter mode (ttl is a number or null).
ttlSet(s, key, ttl, t) ==
    LET entry == getEntry(s, key) IN
    IF entry = Undefined THEN s ELSE set(s, key, entry.value, ttl, t)

ttlSetResult(s, key, ttl) ==
    IF getEntry(s, key) = Undefined THEN Undefined ELSE ttl

\* Faulty variant of expireAtSet: the instant is passed on as if it were a TTL.
expireAtSetNoConvert(s, key, expireAt, t) ==
    LET entry == getRawEntry(s, key) IN
    IF entry = Undefined THEN s
    ELSE IF expireAt = Null THEN set(s, key, entry.value, Undefined, t)
    ELSE set(s, key, entry.value, expireAt, t)

\* Faulty variant of expireAtSet: null is passed on to set as the TTL.
expireAtSetNullAsTtl(s, key, expireAt, t) ==
    LET entry == getRawEntry(s, key) IN
    IF entry = Undefined THEN s
    ELSE IF expireAt = Null THEN set(s, key, entry.value, Null, t)
    ELSE set(s, key, entry.value, Num(expireAt.n - t), t)

\* expireAt(key, expireAt) in setter mode (expireAt is a number or null).
expireAtSet(s, key, expireAt, t) ==
    LET entry == getRawEntry(s, key) IN
    IF entry = Undefined THEN s
    ELSE IF expireAt = Null THEN set(s, key, entry.value, Undefined, t)
    ELSE set(s, key, entry.value, Num(expireAt.n - t), t)

expireAtSetResult(s, key, expireAt) ==
    IF getRawEntry(s, key) = Undefined THEN Undefined ELSE expireAt

\* ----------------------------------------------------------------- actions
\* The fields after a call returned store s. The model keeps the host's
\* timeout table within MaxTimers and every due time within the clock's range.
Install(s) ==
    /\ Cardinality(s.sched) <= MaxTimers
    /\ \A h \in s.sched : h.due <= MaxTime
    /\ map' = s.map
    /\ timers' = s.timers
    /\ sched' = s.sched

\* How many pending timeouts the step that returned store s cleared.
Cleared(s) == Cardinality(sched \ s.sched)

\* What `last` records of a step.
Step(op, key, arg, val, ret, cleared) ==
    [op |-> op, key |-> key, arg |-> arg, val |-> val, ret |-> ret,
     cleared |-> cleared]

TtlArgs == {Num(n) : n \in 0..MaxTtl}
InstantArgs == {Num(n) : n \in 0..MaxTime}

Init ==
    /\ map = <<>>
    /\ timers = << >>
    /\ sched = {}
    /\ now = 0
    /\ last = Step("new", "", Undefined, Undefined, Undefined, 0)

Set(key, value, ttl) ==
    \E s \in {set(Store, key, Str(value), ttl, now)} :
    /\ Install(s)
    /\ last' = Step("set", key, ttl, Str(value), This, Cleared(s))
    /\ UNCHANGED now

TtlSet(key, ttl) ==
    \E s \in {ttlSet(Store, key, ttl, now)} :
    /\ Install(s)
    /\ last' = Step("ttl", key, ttl, Undefined, ttlSetResult(Store, key, ttl), Cleared(s))
    /\ UNCHANGED now

ExpireAtSet(key, expireAt) ==
    \E s \in {expireAtSet(Store, key, expireAt, now)} :
    /\ Install(s)
    /\ last' = Step("expireAt", key, expireAt, Undefined, expireAtSetResult(Store, key, expireAt), Cleared(s))
    /\ UNCHANGED now

Delete(key) ==
    \E s \in {delete(Store, key)} :
    /\ Install(s)
    /\ last' = Step("delete", key, Undefined, Undefined, deleteResult(Store, key), Cleared(s))
    /\ UNCHANGED now

Clear ==
    \E s \in {clear(Store)} :
    /\ Install(s)
    /\ last' = Step("clear", "", Undefined, Undefined, Undefined, Cleared(s))
    /\ UNCHANGED now

\* The host runs the callback of a due timeout; the handle is then spent.
Fire(h) ==
    \E s \in {timerCallback([Store EXCEPT !.sched = sched \ {h}], h)} :
    /\ h \in sched
    /\ h.due <= now
    /\ Install(s)
    /\ last' = Step("fire", h.key, Undefined, Undefined, Undefined, 0)
    /\ UNCHANGED now

Tick ==
    /\ now < MaxTime
    /\ now' = now + 1
    /\ last' = Step("tick", "", Undefined, Undefined, Undefined, 0)
    /\ UNCHANGED <<map, timers, sched>>

Read(op, key) ==
    \E s \in {afterRead(Store, op, key)} :
    /\ Install(s)
    /\ last' = Step(op, key, Undefined, Undefined,
                    readResult(Store, op, key, now), Cleared(s))
    /\ UNCHANGED now

NextOver(vals) ==
    \/ \E key \in Keys, value \in vals, ttl \in TtlArgs \cup {Undefined} :
          Set(key, value, ttl)
    \/ \E key \in Keys, ttl \in TtlArgs \cup {Null} : TtlSet(key, ttl)
    \/ \E key \in Keys, expireAt \in InstantArgs \cup {Null} :
          ExpireAtSet(key, expireAt)
    \/ \E key \in Keys : Delete(key)
    \/ Clear
    \/ \E h \in sched : Fire(h)
    \/ Tick

Next == NextOver(Vals)

Spec == Init /\ [][Next]_vars

\* The scheduler is live: the clock advances and the due timeout of every key
\* is eventually run. Stored values play no part in scheduling, so the fair
\* specification draws them from a single value.
FireKey(key) == \E h \in sched : h.key = key /\ Fire(h)

FairNext == NextOver({"v1"})

FairSpec ==
    /\ Init
    /\ [][FairNext]_vars
    /\ WF_vars(Tick)
    /\ \A key \in Keys : WF_vars(FireKey(key))

\* The store with its read operations called between the writes.
ReadNext ==
    \/ NextOver({"v1"})
    \/ \E op \in KeyedReads, key \in Keys : Read(op, key)
    \/ \E op \in UnkeyedReads : Read(op, "")

ReadSpec == Init /\ [][ReadNext]_vars

\* ------------------------------------------------------------- vocabulary
TimersFor(key) == {h \in sched : h.key = key}

Present(key) == has(Store, key)

Record(key) == getRawEntry(Store, key)

NoDeadline(key) == Present(key) /\ Record(key).expireAt = Undefined

\* The step just taken is a direct call that touches key.
Touched(key) ==
    \/ last.op \in {"set", "ttl", "expireAt", "delete"} /\ last.key = key
    \/ last.op = "clear"

\* The step just taken ran the callback of a timeout created for key.
Fired(key) == last.op = "fire" /\ last.key = key

IsPrefixOrder(old, new) ==
    LET kept == SelectSeq(old, LAMBDA k : \E i \in 1..Len(new) : new[i] = k) IN
    /\ Len(kept) <= Len(new)
    /\ SubSeq(new, 1, Len(kept)) = kept
    /\ \A i \in (Len(kept) + 1)..Len(new) :
          ~\E j \in 1..Len(old) : old[j] = new[i]

NoDuplicates(q) == \A i, j \in 1..Len(q) : q[i] = q[j] => i = j

\* ------------------------------------------------------------------ claims

\* C1: after the setter call ttl(k, null) on a present key, the key never
\* expires: its record has no deadline, no timer is pending for it and ttl(k)
\* returns "never" (null).
C1_TtlNullNeverExpires ==
    (last.op = "ttl" /\ last.arg = Null /\ last.ret # Undefined) =>
        /\ Present(last.key)
        /\ Record(last.key).expireAt = Undefined
        /\ TimersFor(last.key) = {}
        /\ ttlGet(Store, last.key, now) = Null

\* The two kinds of step C2 speaks of: a set call, and a timeout firing.
C2_SetStep ==
    \A k \in Keys :
        (last'.op = "set" /\ last'.key = k) =>
            /\ \A h \in TimersFor(k)' :
                  /\ h \notin sched
                  /\ h.entry = Record(k)'.id
                  /\ last'.arg # Undefined
            /\ Cardinality(TimersFor(k)') =
                  (IF last'.arg = Undefined THEN 0 ELSE 1)

C2_FireStep ==
    last'.op = "fire" =>
        \A h \in sched \ sched' :
            Present(h.key) /\ Record(h.key).id = h.entry

\* C2: re-setting a key cancels its prior schedule. After a set on k the only
\* timer that can be pending for k is the one created for the record that set
\* stored (none when no TTL was given), and whenever a timer fires it is the
\* timer of the record currently stored under its key.
C2_ResetCancelsPriorSchedule == [][C2_SetStep /\ C2_FireStep]_vars

C2_Witness ==
    /\ last.op = "set"
    /\ last.cleared = 1
    /\ Present(last.key)

\* The steps C3 speaks of: the delete, the re-insertion, and every later step.
C3_DeleteStep ==
    \A k \in Keys :
        (last'.op = "delete" /\ last'.key = k) =>
            ~Present(k)' /\ TimersFor(k)' = {}

C3_ReinsertStep ==
    \A k \in Keys :
        (last'.op = "set" /\ last'.key = k /\ last'.arg = Undefined
            /\ ~Present(k)) =>
            /\ NoDeadline(k)'
            /\ TimersFor(k) = {}
            /\ TimersFor(k)' = {}

C3_KeptStep ==
    \A k \in Keys :
        (NoDeadline(k) /\ ~Touched(k)') => (Present(k)' /\ Record(k)' = Record(k))

\* C3: delete(k) of a key that had a TTL leaves no timer pending for k; a
\* set(k, v) without a TTL on the then absent key stores a record with no
\* deadline and no timer, and no timer firing removes such a record.
C3_NoPhantomEviction == [][C3_DeleteStep /\ C3_ReinsertStep /\ C3_KeptStep]_vars

C3_Witness ==
    /\ last.op = "delete"
    /\ last.ret = Bool(TRUE)
    /\ last.cleared = 1
    /\ ~Present(last.key)
    /\ now > 0

\* C4: after clear() the size is 0 and no timer is pending, so no timer
\* created before the clear can fire afterwards.
C4_ClearCancelsAll ==
    last.op = "clear" =>
        /\ size(Store) = 0
        /\ sched = {}
        /\ DOMAIN timers = {}

C4_Witness == last.op = "clear" /\ last.cleared = 2

\* The steps C5 speaks of: the set call, and every step that leaves the key alone.
C5_SetStep ==
    \A k \in Keys :
        (last'.op = "set" /\ last'.key = k) =>
            /\ has(Store, k)'
            /\ get(Store, k)' = last'.val
            /\ size(Store)' = size(Store) + (IF has(Store, k) THEN 0 ELSE 1)

C5_KeptStep ==
    \A k \in Keys :
        (has(Store, k) /\ ~Touched(k)' /\ ~Fired(k)') =>
            /\ has(Store, k)'
            /\ get(Store, k)' = get(Store, k)
            /\ size(Store)' >= 1

\* C5: from set(k, v, t) until the timer it scheduled fires, with no call on k
\* in between, has(k) is true, get(k) returns v and k is counted in size, also
\* when the clock is past the stored deadline.
C5_VisibleUntilFired == [][C5_SetStep /\ C5_KeptStep]_vars

C5_Witness ==
    \E k \in Keys :
        /\ has(Store, k)
        /\ EntryIsExpired(getEntry(Store, k), now)
        /\ get(Store, k) = Str("v2")
        /\ last.op = "tick"

\* The firing step C6 speaks of.
C6_FireStep ==
    \A k \in Keys :
        (last'.op = "fire" /\ last'.key = k) =>
            /\ \A h \in sched \ sched' : h.due <= now
            /\ ~has(Store, k)'
            /\ get(Store, k)' = Undefined

\* C6: when the scheduler runs the due timer of an untouched key, has(k) is
\* false and get(k) returns "absent" afterwards; when due timers are run
\* fairly, a record with a deadline is eventually gone (removed or replaced).
C6_Expires ==
    /\ [][C6_FireStep]_vars
    /\ \A k \in Keys :
          (Present(k) /\ Record(k).expireAt # Undefined /\ ~Touched(k))
              ~> (~Present(k) \/ Touched(k))

C6_Witness ==
    /\ last.op = "fire"
    /\ ~has(Store, last.key)
    /\ size(Store) = 1

\* The state and steps C7 speaks of.
C7_State ==
    \A k \in Keys : NoDeadline(k) => ttlGet(Store, k, now) = Null

C7_KeptStep ==
    \A k \in Keys :
        (NoDeadline(k) /\ ~Touched(k)') =>
            /\ has(Store, k)'
            /\ ttlGet(Store, k, now)' = Null

C7_SetStep ==
    \A k \in Keys :
        (last'.op = "set" /\ last'.key = k /\ last'.arg = Undefined) =>
            ttlGet(Store, k, now)' = Null

\* C7: a key stored without a TTL reports ttl(key) = "never" (null) and is not
\* removed by any timer firing or clock advance; only a call on the key (or
\* clear) changes that.
C7_NeverExpires == [][C7_State /\ C7_State' /\ C7_KeptStep /\ C7_SetStep]_vars

C7_Witness ==
    \E k \in Keys :
        /\ NoDeadline(k)
        /\ last.op = "fire"
        /\ last.key # k
        /\ now = MaxTime

\* The effect of one step on the iteration order.
C8_Step ==
    /\ NoDuplicates(keys(Store)')
    /\ IsPrefixOrder(keys(Store), keys(Store)')
    /\ (last'.op \in {"set", "ttl", "expireAt"} /\ Present(last'.key)) =>
          keys(Store)' = keys(Store)
    /\ (last'.op = "set" /\ ~Present(last'.key)) =>
          keys(Store)' = Append(keys(Store), last'.key)

\* C8: keys() yields each present key once, in insertion order: a set, ttl or
\* expireAt call on a present key keeps its position, a key that was absent is
\* appended at the end, and the remaining keys keep their relative order.
C8_InsertionOrder == [][C8_Step]_vars

C8_Witness ==
    /\ keys(Store) = <<"b", "a">>
    /\ last.op = "set"
    /\ last.key = "b"

\* C9: the getters ttl(k) and expireAt(k) return "absent" (undefined) exactly
\* when k is not present, and "never expires" (null) exactly when k is present
\* without a deadline.
C9_GettersDistinguishAbsent ==
    \A k \in Keys :
        /\ (ttlGet(Store, k, now) = Undefined) <=> ~Present(k)
        /\ (expireAtGet(Store, k) = Undefined) <=> ~Present(k)
        /\ (ttlGet(Store, k, now) = Null) <=> NoDeadline(k)
        /\ (expireAtGet(Store, k) = Null) <=> NoDeadline(k)

\* A setter step on a key that is not present.
C10_Step ==
    (last'.op \in {"ttl", "expireAt"} /\ ~Present(last'.key)) =>
        /\ last'.ret = Undefined
        /\ UNCHANGED <<map, timers, sched, now>>

\* C10: the setter calls ttl(k, x) and expireAt(k, x) on a key that is not
\* present return "absent" (undefined) and change nothing.
C10_SetterOnMissingKey == [][C10_Step]_vars

C10_Witness ==
    /\ last.op \in {"ttl", "expireAt"}
    /\ last.ret = Undefined
    /\ last.arg # Null
    /\ size(Store) = 1
    /\ sched # {}

\* The store a call returned, compared with the fields after the step.
IsStoreAfter(s) == map' = s.map /\ timers' = s.timers /\ sched' = s.sched

\* The setter steps C11 speaks of, each compared with the other setter.
C11_ExpireAtStep ==
    \A k \in Keys : \A i \in 0..MaxTime :
        (last'.op = "expireAt" /\ last'.key = k /\ last'.arg = Num(i)
            /\ Present(k)) =>
            IsStoreAfter(ttlSet(Store, k, Num(i - now), now))

C11_TtlStep ==
    \A k \in Keys : \A n \in 0..MaxTtl :
        (last'.op = "ttl" /\ last'.key = k /\ last'.arg = Num(n)
            /\ Present(k)) =>
            IsStoreAfter(expireAtSet(Store, k, Num(now + n), now))

\* C11: on a present key, expireAt(k, i) and ttl(k, i - now) from the same
\* state at the same clock value leave the same store: the same deadline,
\* value, pending timeout (with its due time) and iteration order.
C11_ExpireAtEquivalentToTtl == [][C11_ExpireAtStep /\ C11_TtlStep]_vars

C11_Witness ==
    /\ last.op = "expireAt"
    /\ last.ret = Num(0)
    /\ now = 1
    /\ last.cleared = 1
    /\ size(Store) = 2

\* The setter step expireAt(k, null) on a present key.
C12_Step ==
    \A k \in Keys :
        (last'.op = "expireAt" /\ last'.key = k /\ last'.arg = Null
            /\ Present(k)) =>
            /\ last'.ret = Null
            /\ TimersFor(k)' = {}
            /\ NoDeadline(k)'
            /\ get(Store, k)' = get(Store, k)
            /\ ttlGet(Store, k, now)' = Null

\* C12: after expireAt(k, null) on a present key the key never expires: its
\* pending timer is cancelled, none is scheduled, the value is unchanged,
\* ttl(k) returns "never" (null) and the call returns null.
C12_ExpireAtNullNeverExpires == [][C12_Step]_vars

C12_Witness ==
    /\ last.op = "expireAt"
    /\ last.arg = Null
    /\ last.ret = Null
    /\ last.cleared = 1
    /\ NoDeadline(last.key)

\* The delete step.
C13_Step ==
    \A k \in Keys :
        (last'.op = "delete" /\ last'.key = k) =>
            /\ last'.ret = Bool(Present(k))
            /\ ~Present(k)'
            /\ TimersFor(k)' = {}

\* C13: delete(k) returns true exactly when k was present right before the
\* call (also past its deadline with the timer not yet fired) and false
\* otherwise; afterwards k is absent and no timer for k is pending.
C13_DeleteResult == [][C13_Step]_vars

C13_Witness ==
    /\ last.op = "delete"
    /\ last.ret = Bool(FALSE)
    /\ size(Store) = 1
    /\ sched # {}

\* The timeouts created for the record currently stored under key.
OwnTimers(key) ==
    {h \in sched : h.key = key /\ Present(key) /\ h.entry = Record(key).id}

\* C14: in every reachable state a stored record has a pending timer exactly
\* when it has a deadline, every key has at most one pending timer, and every
\* pending timer belongs to the record currently stored under its key; the
\* WeakMap holds exactly the handles of the pending timers.
C14_TimerRecordInvariant ==
    /\ \A k \in Keys :
          /\ Present(k) =>
                ((Record(k).expireAt # Undefined) <=> (OwnTimers(k) # {}))
          /\ Cardinality(TimersFor(k)) <= 1
    /\ \A h \in sched : h \in OwnTimers(h.key)
    /\ DOMAIN timers = {h.entry : h \in sched}
    /\ \A h \in sched : timers[h.entry] = h.id

C14_Witness ==
    /\ \E k \in Keys : NoDeadline(k)
    /\ \E k \in Keys : Present(k) /\ OwnTimers(k) # {}
    /\ last.op = "set"
    /\ last.cleared = 1
    /\ now = MaxTime

Max(a, b) == IF a >= b THEN a ELSE b

C16_ScheduleStep ==
    \A h \in sched' \ sched :
        /\ h \in OwnTimers(h.key)'
        /\ h.due = Max(Record(h.key)'.expireAt.n, now)

C16_FireStep ==
    last'.op = "fire" =>
        \A h \in sched \ sched' :
            /\ expireAtGet(Store, h.key) # Undefined
            /\ expireAtGet(Store, h.key).n <= now
            /\ getEntry(Store, h.key).expireAt.n <= now

C17_ReadsChangeNothing ==
    [][last'.op \in ReadOps => UNCHANGED <<map, timers, sched, now>>]_vars

C17_Witness ==
    /\ last.op = "get"
    /\ last.ret = Str("v1")
    /\ Present(last.key)
    /\ EntryIsExpired(getEntry(Store, last.key), now)
    /\ TimersFor(last.key) # {}

\* The records, WeakMap handles and pending timeouts of every key but key are
\* the same before and after the step.
OthersUnchanged(key) ==
    \A k2 \in Keys \ {key} :
        /\ Record(k2)' = Record(k2)
        /\ TimersFor(k2)' = TimersFor(k2)
        /\ (Present(k2) => WeakGet(timers, Record(k2).id)' = WeakGet(timers, Record(k2).id))

C18_Step ==
    \A k \in Keys :
        (last'.op \in {"ttl", "expireAt"} /\ last'.key = k /\ Present(k)) =>
            /\ last'.ret = last'.arg
            /\ get(Store, k)' = get(Store, k)
            /\ keys(Store)' = keys(Store)
            /\ size(Store)' = size(Store)
            /\ OthersUnchanged(k)

\* C18: on a present key k, ttl(k, t) and expireAt(k, i) return their argument
\* and change only the deadline and timer of k: get(k), the iteration order,
\* size, and the records and timers of all other keys stay as they were.
C18_SettersChangeOnlyDeadline == [][C18_Step]_vars

C18_Witness ==
    /\ last.op = "ttl"
    /\ last.ret = Num(1)
    /\ size(Store) = 2
    /\ keys(Store)[1] = last.key
    /\ last.cleared = 1
    /\ TimersFor(keys(Store)[2]) # {}
    /\ get(Store, last.key) = Str("v2")

C19_FireStep ==
    \A k \in Keys :
        (last'.op = "fire" /\ last'.key = k) =>
            /\ Present(k)
            /\ ~Present(k)'
            /\ size(Store)' = size(Store) - 1
            /\ keys(Store)' = SelectSeq(keys(Store), LAMBDA k2 : k2 # k)
            /\ OthersUnchanged(k)

C19_TickStep ==
    last'.op = "tick" => UNCHANGED <<map, timers, sched>>

\* C19: a timer firing for key k removes k and nothing else: size drops by
\* one, and the values, deadlines, pending timers and relative order of the
\* other keys are unchanged; the only other step that is not a direct call,
\* the passing of time, changes nothing in the store.
C19_FireRemovesOnlyItsKey == [][C19_FireStep /\ C19_TickStep]_vars

C19_Witness ==
    /\ last.op = "fire"
    /\ size(Store) = 1
    /\ sched # {}
    /\ \E k \in Keys : Present(k) /\ k # last.key /\ TimersFor(k) # {}

\* C20: right after expireAt(k, i) on a present key, expireAt(k) returns i,
\* also for an instant in the past; right after ttl(k, t) with t >= 0, read at
\* the same clock value, ttl(k) returns t.
C20_SetterGetterRoundTrip ==
    /\ (last.op = "expireAt" /\ last.ret # Undefined /\ last.arg # Null) =>
            expireAtGet(Store, last.key) = last.arg
    /\ (last.op = "ttl" /\ last.ret # Undefined /\ last.arg # Null) =>
            ttlGet(Store, last.key, now) = last.arg

C20_Witness ==
    /\ last.op = "expireAt"
    /\ last.ret # Undefined
    /\ last.arg = Num(0)
    /\ now > 0
    /\ expireAtGet(Store, last.key) = Num(0)
    /\ TimersFor(last.key) # {}

C20_TtlWitness ==
    /\ last.op = "ttl"
    /\ last.ret = Num(1)
    /\ now > 0
    /\ ttlGet(Store, last.key, now) = Num(1)

====
